---- MODULE Spec2Model ----
(***************************************************************************)
(* Model of the claude-discord-bridge session core:                        *)
(*   - SessionManager  (src/session_manager.py): channel <-> session map   *)
(*     with its sessions.json file (config/settings.py);                   *)
(*   - TmuxManager     (src/tmux_manager.py): one tmux session per id.     *)
(* Channel ids are opaque strings in the code; they are modelled by the    *)
(* indices 1..NumChannels.  None is modelled by 0 (ids and channels are    *)
(* positive).  Timestamps are abstracted to "has been stamped".            *)
(***************************************************************************)
EXTENDS Integers, Sequences, FiniteSets, TLC

\* ----- bounds ----------------------------------------------------------
NumChannels == 2
MaxId == 4
NumTmuxIds == 2
NumRecoverIds == 1
MaxLogEntries == 2
MaxWorkers == 2
MaxRecoveryCount == 2
MaxHistory == 4
MaxAttempt == 10

Channels == 1..NumChannels
SessionIds == 1..MaxId
\* the two callers of the concurrent scenario
Callers == {1, 2}
RecoverIds == 1..NumRecoverIds
TmuxIds == 1..NumTmuxIds
None == 0

VARIABLES
    sessions_cache,   \* SessionManager.sessions_cache : id -> SessionInfo
    channel_map,      \* SessionManager.channel_map    : channel -> id
    sessions_file,    \* sessions.json: [valid, data : digit string -> channel]
    last,             \* the last call: operation, arguments, outcome, result
    pc,               \* concurrent callers of add_session: position in the method
    local,            \* concurrent callers of add_session: local variables
    tmux_installed,   \* whether the tmux binary can be executed
    tmux,             \* live tmux sessions claude-session-<id>: id -> launch command
    tm_cache,         \* TmuxManager.sessions_cache : id -> status record
    recovery_counts,  \* AutoRecoverySystem.recovery_counts : id -> attempts
    recovery_history, \* AutoRecoverySystem.recovery_history: RecoveryAttempts
    backoff,          \* an evaluation of RecoveryStrategy.get_backoff_time
    history_file,     \* logs/recovery_history.json: [valid, data : records]
    monitoring,       \* AutoRecoverySystem.monitoring
    stop_event,       \* AutoRecoverySystem.stop_event is set
    monitor_thread,   \* AutoRecoverySystem.monitor_thread: a worker, or None
    workers,          \* the threads running _monitor_sessions: worker -> state
    stop_pc           \* the caller of stop_monitoring: "idle" or "joining"

regvars == <<sessions_cache, channel_map, sessions_file>>
callvars == <<pc, local>>
tmuxvars == <<tmux_installed, tmux, tm_cache>>
recvars == <<recovery_counts, recovery_history, history_file>>
monvars == <<monitoring, stop_event, monitor_thread, workers, stop_pc>>
autovars == <<recvars, backoff, monvars>>
vars == <<sessions_cache, channel_map, sessions_file, last, pc, local,
          tmux_installed, tmux, tm_cache, recovery_counts, recovery_history,
          backoff, history_file, monitoring, stop_event, monitor_thread,
          workers, stop_pc>>

\* ----- helpers ---------------------------------------------------------
Max(S) == CHOOSE x \in S : \A y \in S : y <= x

\* dict assignment d[k] = v
Put(d, k, v) == [x \in DOMAIN d \cup {k} |-> IF x = k THEN v ELSE d[x]]

\* del d[k]
Del(d, k) == [x \in DOMAIN d \ {k} |-> d[x]]

EmptyDict == [x \in {} |-> 0]

\* str(n) for n >= 0: the sequence of decimal digits
RECURSIVE IntToStr(_)
IntToStr(n) == IF n < 10 THEN <<n>> ELSE IntToStr(n \div 10) \o <<n % 10>>

\* str.isdigit(): non-empty and only digits
IsDigit(s) == Len(s) > 0 /\ \A i \in 1..Len(s) : s[i] \in 0..9

\* int(s) for a digit string
RECURSIVE StrToInt(_)
StrToInt(s) ==
    IF Len(s) = 0 THEN 0
    ELSE 10 * StrToInt(SubSeq(s, 1, Len(s) - 1)) + s[Len(s)]

\* ----- SessionManager --------------------------------------------------
SessionInfo(id, c) ==
    [session_id |-> id, channel_id |-> c, status |-> "active",
     last_health_check |-> FALSE]

\* a finished call: outcome is "return" or "raise"; error names what was
\* logged or raised ("" when nothing was)
Call(op, sid, cid, outcome, error, ret_id, ret_ok) ==
    [op |-> op, sid |-> sid, cid |-> cid, outcome |-> outcome,
     error |-> error, ret_id |-> ret_id, ret_ok |-> ret_ok,
     healthy |-> FALSE, cmds |-> <<>>, env |-> <<>>,
     max_retries |-> 0, creates |-> 0, sleeps |-> 0, kills |-> 0,
     attempt |-> 0, notify |-> "none", saved |-> FALSE, worker |-> None,
     ret_list |-> <<>>, launches |-> 0]

\* a save that writes the entries that are not active
SessionsDictInverted(cache) ==
    LET act == {k \in DOMAIN cache : cache[k].status # "active"}
        keys == {IntToStr(cache[k].session_id) : k \in act}
    IN  [s \in keys |->
            cache[CHOOSE k \in act : IntToStr(cache[k].session_id) = s].channel_id]

\* the dict written by _save_sessions: active entries only, keyed by str(id)
SessionsDict(cache) ==
    LET act == {k \in DOMAIN cache : cache[k].status = "active"}
        keys == {IntToStr(cache[k].session_id) : k \in act}
    IN  [s \in keys |->
            cache[CHOOSE k \in act : IntToStr(cache[k].session_id) = s].channel_id]

ValidFile(d) == [valid |-> TRUE, data |-> d]
CorruptFile == [valid |-> FALSE, data |-> EmptyDict]

\* the contents sessions.json can have after a save that raised: the write
\* did not start, or the file was truncated by open(..., 'w')
FailedWrite(file) == {file, CorruptFile}

\* _load_sessions: the caches built from sessions.json
LoadSessions(file) ==
    IF ~file.valid
    THEN [cache |-> EmptyDict, map |-> EmptyDict]
    ELSE LET keys == {s \in DOMAIN file.data : IsDigit(s)}
             ids == {StrToInt(s) : s \in keys}
             KeyOf(id) == CHOOSE s \in keys : StrToInt(s) = id
             chans == {file.data[s] : s \in keys}
         IN  [cache |-> [id \in ids |-> SessionInfo(id, file.data[KeyOf(id)])],
              map |-> [c \in chans |->
                         Max({id \in ids : file.data[KeyOf(id)] = c})]]

\* a lookup that does not test the status
GetSessionByChannelAnyStatus(cache, map, c) ==
    LET session_id == IF c \in DOMAIN map THEN map[c] ELSE None
    IN  IF session_id # 0 /\ session_id \in DOMAIN cache
        THEN session_id
        ELSE None

GetSessionByChannel(cache, map, c) ==
    LET session_id == IF c \in DOMAIN map THEN map[c] ELSE None
    IN  IF session_id # 0 /\ session_id \in DOMAIN cache
           /\ cache[session_id].status = "active"
        THEN session_id
        ELSE None

GetChannelBySession(cache, id) ==
    IF id \in DOMAIN cache /\ cache[id].status = "active"
    THEN cache[id].channel_id
    ELSE None

\* a duplicate test that is never true
AlreadyMappedNever(map, c) == FALSE

\* add_session, line 194: the duplicate-channel test
AlreadyMapped(map, c) == c \in DOMAIN map

\* an id taken from the number of entries
NewSessionIdByCount(ids) == Cardinality(ids) + 1

\* add_session, lines 205-206
NewSessionId(ids) == IF ids = {} THEN 1 ELSE Max(ids) + 1

\* add_session, lines 226-233: the caches after _save_sessions raised.
\* _save_sessions wraps every failure in SessionManagerError, which the
\* first handler re-raises; the rollback handler is not entered.
AddAfterSaveError(backup, current) == current

\* a remove that keeps the mutated caches after a failed save
RemoveAfterSaveErrorKeep(backup, current) == current

\* remove_session, lines 270-275: the caches after _save_sessions raised
RemoveAfterSaveError(backup, current) == backup

AddSession(c) ==
    IF AlreadyMapped(channel_map, c)
    THEN /\ last' = Call("add", None, c, "raise", "already_mapped", None, FALSE)
         /\ UNCHANGED <<sessions_cache, channel_map, sessions_file>>
    ELSE LET backup == [cache |-> sessions_cache, map |-> channel_map]
             new_session_id == NewSessionId(DOMAIN sessions_cache)
             cache1 == Put(sessions_cache, new_session_id,
                           SessionInfo(new_session_id, c))
             map1 == Put(channel_map, c, new_session_id)
             current == [cache |-> cache1, map |-> map1]
         IN  /\ new_session_id <= MaxId
             /\ \/ /\ sessions_file' = ValidFile(SessionsDict(cache1))
                   /\ sessions_cache' = cache1
                   /\ channel_map' = map1
                   /\ last' = Call("add", None, c, "return", "", new_session_id, TRUE)
                \/ /\ sessions_file' \in FailedWrite(sessions_file)
                   /\ sessions_cache' = AddAfterSaveError(backup, current).cache
                   /\ channel_map' = AddAfterSaveError(backup, current).map
                   /\ last' = Call("add", None, c, "raise", "save_failed", None, FALSE)

NotFoundResultTrue == TRUE

\* remove_session, lines 246-248: the result for an id that is not cached
NotFoundResult == FALSE

RemoveSession(id) ==
    IF id \notin DOMAIN sessions_cache
    THEN /\ last' = Call("remove", id, None, "return", "not_found", None, NotFoundResult)
         /\ UNCHANGED <<sessions_cache, channel_map, sessions_file>>
    ELSE LET backup == [cache |-> sessions_cache, map |-> channel_map]
             session_info == sessions_cache[id]
             map1 == IF session_info.channel_id \in DOMAIN channel_map
                     THEN Del(channel_map, session_info.channel_id)
                     ELSE channel_map
             cache1 == Del(sessions_cache, id)
             current == [cache |-> cache1, map |-> map1]
         IN  \/ /\ sessions_file' = ValidFile(SessionsDict(cache1))
                /\ sessions_cache' = cache1
                /\ channel_map' = map1
                /\ last' = Call("remove", id, None, "return", "", None, TRUE)
             \/ /\ sessions_file' \in FailedWrite(sessions_file)
                /\ sessions_cache' = RemoveAfterSaveError(backup, current).cache
                /\ channel_map' = RemoveAfterSaveError(backup, current).map
                /\ last' = Call("remove", id, None, "return", "save_failed", None, FALSE)

UpdateSessionHealth(id, is_healthy) ==
    /\ sessions_cache' =
          IF id \in DOMAIN sessions_cache
          THEN [sessions_cache EXCEPT
                  ![id].last_health_check = TRUE,
                  ![id].status = IF is_healthy THEN "active" ELSE "error"]
          ELSE sessions_cache
    /\ last' = [Call("update_health", id, None, "return", "", None, TRUE)
                  EXCEPT !.healthy = is_healthy]
    /\ UNCHANGED <<channel_map, sessions_file>>

\* SessionManager(): a fresh manager built from sessions.json
NewSessionManager ==
    /\ sessions_cache' = LoadSessions(sessions_file).cache
    /\ channel_map' = LoadSessions(sessions_file).map
    /\ last' = Call("init", None, None, "return", "", None, TRUE)
    /\ UNCHANGED sessions_file

\* ----- the bot's routing of an inbound message ---------------------------
\* the DEFAULT_SESSION entry of the .env file: absent, or the digits that
\* set_default_session wrote (settings.py lines 131-135)
EnvUnset == <<>>
EnvDefaults == {EnvUnset} \cup {IntToStr(n) : n \in SessionIds}

\* a default that ignores the configuration
GetDefaultSessionOne(env_default) == 1

\* get_default_session: int(env_vars.get('DEFAULT_SESSION', '1'))
GetDefaultSession(env_default) ==
    StrToInt(IF env_default = EnvUnset THEN <<1>> ELSE env_default)

\* on_message, lines 225-230: the session an accepted message is routed to;
\* the .env file is read again for every message that needs the default
OnMessage(c, env_default) ==
    LET found == GetSessionByChannel(sessions_cache, channel_map, c)
        session_id == IF found = None THEN GetDefaultSession(env_default)
                      ELSE found
    IN  /\ last' = [Call("message", None, c, "return", "", session_id, TRUE)
                      EXCEPT !.env = env_default]
        /\ UNCHANGED regvars

\* ----- add_session run by concurrent callers, one statement per step ----
NoLocal ==
    [channel_id |-> None, backup |-> [cache |-> EmptyDict, map |-> EmptyDict],
     new_session_id |-> None, sessions_dict |-> EmptyDict,
     outcome |-> "", error |-> "", ret_id |-> None]

\* a caller enters add_session(c)
T_Call(t, c) ==
    /\ pc[t] = "idle"
    /\ pc' = [pc EXCEPT ![t] = "check"]
    /\ local' = [local EXCEPT ![t].channel_id = c]
    /\ UNCHANGED <<regvars, last>>

\* line 194
T_Check(t) ==
    /\ pc[t] = "check"
    /\ IF AlreadyMapped(channel_map, local[t].channel_id)
       THEN /\ pc' = [pc EXCEPT ![t] = "done"]
            /\ local' = [local EXCEPT ![t].outcome = "raise",
                                      ![t].error = "already_mapped"]
       ELSE /\ pc' = [pc EXCEPT ![t] = "backup"]
            /\ UNCHANGED local
    /\ UNCHANGED <<regvars, last>>

\* lines 201-202
T_Backup(t) ==
    /\ pc[t] = "backup"
    /\ local' = [local EXCEPT
                   ![t].backup = [cache |-> sessions_cache, map |-> channel_map]]
    /\ pc' = [pc EXCEPT ![t] = "new_id"]
    /\ UNCHANGED <<regvars, last>>

\* lines 205-206
T_NewId(t) ==
    /\ pc[t] = "new_id"
    /\ NewSessionId(DOMAIN sessions_cache) <= MaxId
    /\ local' = [local EXCEPT
                   ![t].new_session_id = NewSessionId(DOMAIN sessions_cache)]
    /\ pc' = [pc EXCEPT ![t] = "put_cache"]
    /\ UNCHANGED <<regvars, last>>

\* line 217
T_PutCache(t) ==
    /\ pc[t] = "put_cache"
    /\ sessions_cache' =
          Put(sessions_cache, local[t].new_session_id,
              SessionInfo(local[t].new_session_id, local[t].channel_id))
    /\ pc' = [pc EXCEPT ![t] = "put_map"]
    /\ UNCHANGED <<channel_map, sessions_file, local, last>>

\* line 218
T_PutMap(t) ==
    /\ pc[t] = "put_map"
    /\ channel_map' = Put(channel_map, local[t].channel_id, local[t].new_session_id)
    /\ pc' = [pc EXCEPT ![t] = "build_dict"]
    /\ UNCHANGED <<sessions_cache, sessions_file, local, last>>

\* line 221 -> _save_sessions lines 124-128
T_BuildDict(t) ==
    /\ pc[t] = "build_dict"
    /\ local' = [local EXCEPT ![t].sessions_dict = SessionsDict(sessions_cache)]
    /\ pc' = [pc EXCEPT ![t] = "write"]
    /\ UNCHANGED <<regvars, last>>

\* _save_sessions line 130, then lines 223-233 of add_session
T_Write(t) ==
    /\ pc[t] = "write"
    /\ pc' = [pc EXCEPT ![t] = "done"]
    /\ \/ /\ sessions_file' = ValidFile(local[t].sessions_dict)
          /\ local' = [local EXCEPT ![t].outcome = "return",
                                    ![t].ret_id = local[t].new_session_id]
          /\ UNCHANGED <<sessions_cache, channel_map>>
       \/ LET current == [cache |-> sessions_cache, map |-> channel_map]
          IN  /\ sessions_file' \in FailedWrite(sessions_file)
              /\ sessions_cache' = AddAfterSaveError(local[t].backup, current).cache
              /\ channel_map' = AddAfterSaveError(local[t].backup, current).map
              /\ local' = [local EXCEPT ![t].outcome = "raise",
                                        ![t].error = "save_failed"]
    /\ UNCHANGED last

\* ----- TmuxManager -----------------------------------------------------
WorkDirs == {"/work", "/other"}
Options == {"--flag"}
DEFAULT_CLAUDE_OPTIONS == "--dangerously-skip-permissions"
Unset == "<unset>"

TmuxCall(op, sid, outcome, error, ret_ok, cmds) ==
    [op |-> op, sid |-> sid, cid |-> None, outcome |-> outcome,
     error |-> error, ret_id |-> None, ret_ok |-> ret_ok,
     healthy |-> FALSE, cmds |-> cmds, env |-> <<>>,
     max_retries |-> 0, creates |-> 0, sleeps |-> 0, kills |-> 0,
     attempt |-> 0, notify |-> "none", saved |-> FALSE, worker |-> None,
     ret_list |-> <<>>, launches |-> 0]

\* "tmux has-session -t claude-session-<id>" returns 0 when the sessions
\* in live are the ones tmux has
HasSessionIn(live, id) == tmux_installed /\ id \in DOMAIN live

HasSession(id) == HasSessionIn(tmux, id)

\* a status update that reaches every cached session
MarkStoppedAll(cache, id) ==
    [k \in DOMAIN cache |-> [cache[k] EXCEPT !.status = "stopped"]]

\* sessions_cache[session_id]['status'] = 'stopped' (lines 285, 314)
MarkStopped(cache, id) == [cache EXCEPT ![id].status = "stopped"]

\* a check that makes an entry for a session it does not know
CacheAfterExistsInAdds(live, cache, id) ==
    IF tmux_installed /\ ~HasSessionIn(live, id)
    THEN [k \in DOMAIN cache \cup {id} |->
            IF k = id
            THEN [status |-> "stopped", work_dir |-> Unset, options |-> Unset,
                  recovery_count |-> 0, recovery_attempts |-> 0]
            ELSE cache[k]]
    ELSE cache

\* is_claude_session_exists, lines 281-290: the cache after the check;
\* nothing is updated when tmux cannot be executed
CacheAfterExistsIn(live, cache, id) ==
    IF tmux_installed /\ id \in DOMAIN cache /\ ~HasSessionIn(live, id)
    THEN MarkStopped(cache, id)
    ELSE cache

CacheAfterExists(cache, id) == CacheAfterExistsIn(tmux, cache, id)

\* a cache entry; work_dir and options are Unset and the recovery counters
\* are 0 when the dict has no such key
CacheEntry(status, work_dir, options) ==
    [status |-> status, work_dir |-> work_dir, options |-> options,
     recovery_count |-> 0, recovery_attempts |-> 0]

\* the entry a listing gives a session it finds (lines 387-394): no
\* work_dir and no options are known for it
ListedEntry == CacheEntry("active", Unset, Unset)

\* the result of one TmuxManager call started with the live sessions and
\* the cache given: what tmux has and what is cached afterwards
Outcome(live, cache, outcome, error, ret_ok, cmds) ==
    [tmux |-> live, cache |-> cache, outcome |-> outcome, error |-> error,
     ret_ok |-> ret_ok, cmds |-> cmds]

IsClaudeSessionExists(id) ==
    /\ tm_cache' = CacheAfterExists(tm_cache, id)
    /\ last' = TmuxCall("exists", id, "return", "", HasSession(id), <<"has-session">>)
    /\ UNCHANGED <<tmux, tmux_installed>>

\* a create that never finds the session
AlreadyExistsNever(live, id) == FALSE

\* create_claude_session, lines 228-231: the test that skips the launch
AlreadyExists(live, id) == HasSessionIn(live, id)

\* create_claude_session, lines 226-261
CreateOutcomes(live, cache, id, work_dir, options) ==
    LET cache0 == CacheAfterExistsIn(live, cache, id)
        claude_options == IF options = Unset THEN DEFAULT_CLAUDE_OPTIONS ELSE options
    IN  IF AlreadyExists(live, id)
        THEN {Outcome(live, cache0, "return", "", TRUE, <<"has-session">>)}
        ELSE IF ~tmux_installed
        THEN \* FileNotFoundError is not a CalledProcessError: it propagates
             {Outcome(live, cache0, "raise", "tmux_missing", FALSE,
                      <<"has-session", "new-session">>)}
        ELSE {Outcome(Put(live, id, [work_dir |-> work_dir,
                                     options |-> claude_options]),
                      Put(cache0, id, CacheEntry("active", work_dir, claude_options)),
                      "return", "", TRUE, <<"has-session", "new-session">>),
              Outcome(live, cache0, "return", "launch_failed", FALSE,
                      <<"has-session", "new-session">>)}

CreateClaudeSession(id, work_dir, options) ==
    \E o \in CreateOutcomes(tmux, tm_cache, id, work_dir, options) :
        /\ tmux' = o.tmux
        /\ tm_cache' = o.cache
        /\ last' = TmuxCall("create", id, o.outcome, o.error, o.ret_ok, o.cmds)
        /\ UNCHANGED tmux_installed

KillAbsentResultFalse == FALSE

\* kill_claude_session, lines 304-306: the result when has-session fails
KillAbsentResult == TRUE

\* kill_claude_session, lines 302-324
KillOutcomes(live, cache, id) ==
    LET cache0 == CacheAfterExistsIn(live, cache, id)
    IN  IF ~HasSessionIn(live, id)
        THEN {Outcome(live, cache0, "return", "", KillAbsentResult, <<"has-session">>)}
        ELSE {Outcome(Del(live, id),
                      IF id \in DOMAIN cache0
                      THEN MarkStopped(cache0, id)
                      ELSE cache0,
                      "return", "", TRUE, <<"has-session", "kill-session">>)}
             \cup
             \* kill-session exits non-zero: the session went away by itself
             \* in between, or tmux refused and it is still there
             {Outcome(l, cache0, "return", "kill_failed", FALSE,
                      <<"has-session", "kill-session">>) : l \in {live, Del(live, id)}}

KillClaudeSession(id) ==
    \E o \in KillOutcomes(tmux, tm_cache, id) :
        /\ tmux' = o.tmux
        /\ tm_cache' = o.cache
        /\ last' = TmuxCall("kill", id, o.outcome, o.error, o.ret_ok, o.cmds)
        /\ UNCHANGED tmux_installed

\* a health check that trusts the cached status
HealthOutcomeFromCache(live, cache, id) ==
    [tmux |-> live, cache |-> cache, outcome |-> "return", error |-> "",
     ret_ok |-> id \in DOMAIN cache /\ cache[id].status = "active",
     cmds |-> <<>>]

\* check_session_health, lines 445-456
HealthOutcome(live, cache, id) ==
    LET cache0 == CacheAfterExistsIn(live, cache, id)
        is_healthy == HasSessionIn(live, id)
    IN  Outcome(live,
                IF id \in DOMAIN cache0
                THEN [cache0 EXCEPT ![id].status =
                         IF is_healthy THEN "active" ELSE "error"]
                ELSE cache0,
                "return", "", is_healthy, <<"has-session">>)

CheckSessionHealth(id) ==
    LET o == HealthOutcome(tmux, tm_cache, id)
    IN  /\ tm_cache' = o.cache
        /\ last' = TmuxCall("health", id, "return", "", o.ret_ok, o.cmds)
        /\ UNCHANGED <<tmux, tmux_installed>>

\* ----- TmuxManager.list_claude_sessions -----------------------------------
\* f"{claude_session_prefix}-{session_id}", given by its parts between
\* the '-' characters
SessionName(id) == <<"claude", "session", IntToStr(id)>>

\* list_claude_sessions, lines 377-382: the names that start with the
\* prefix and end in a number, with that number
ClaudeSessionIds(names) ==
    {StrToInt(n[Len(n)]) :
        n \in {x \in names : /\ Len(x) >= 2
                              /\ SubSeq(x, 1, 2) = <<"claude", "session">>
                              /\ IsDigit(x[Len(x)])}}

\* line 399: sessions.sort(key=lambda x: x[0])
RECURSIVE SortedIds(_)
SortedIds(ids) ==
    IF ids = {} THEN <<>>
    ELSE SortedIds(ids \ {Max(ids)}) \o <<Max(ids)>>

\* lines 386-394: the cache after the listing; an entry of a session that
\* is not listed is left as it is
CacheAfterList(cache, ids) ==
    [k \in DOMAIN cache \cup ids |->
        IF k \in ids
        THEN IF k \in DOMAIN cache
             THEN [cache[k] EXCEPT !.status = "active"]
             ELSE ListedEntry
        ELSE cache[k]]

\* list_claude_sessions, lines 361-407; FileNotFoundError is not a
\* CalledProcessError: it propagates when tmux cannot be executed
ListClaudeSessions ==
    /\ IF ~tmux_installed
       THEN /\ last' = TmuxCall("list", None, "raise", "tmux_missing", FALSE,
                                <<"list-sessions">>)
            /\ UNCHANGED tm_cache
       ELSE LET ids == ClaudeSessionIds({SessionName(id) : id \in DOMAIN tmux})
            IN  /\ tm_cache' = CacheAfterList(tm_cache, ids)
                /\ last' = [TmuxCall("list", None, "return", "", TRUE,
                                     <<"list-sessions">>)
                              EXCEPT !.ret_list = SortedIds(ids)]
    /\ UNCHANGED <<tmux, tmux_installed>>

\* ----- TmuxManager.recover_session ---------------------------------------
\* the default of the max_retries parameter
DefaultMaxRetries == 3
RetryChoices == 1..DefaultMaxRetries

\* the work_dir recover_session uses when the cache entry has none (line 488)
FallbackWorkDir == "/workspaces/002--claude-test"

\* a retry loop that runs one attempt too many
LoopEndedLate(attempt, max_retries) == attempt > max_retries + 1

\* recover_session, line 478: range(1, max_retries + 1) is used up
LoopEnded(attempt, max_retries) == attempt > max_retries

\* a recovery that forgets to mark the entry
MarkRecoveryFailedNot(entry, max_retries) == entry

\* recover_session, lines 522-526
MarkRecoveryFailed(entry, max_retries) ==
    [entry EXCEPT !.status = "recovery_failed", !.recovery_attempts = max_retries]

\* recover_session, lines 498-503
MarkRecovered(entry) ==
    [entry EXCEPT !.status = "recovered", !.recovery_count = @ + 1]

\* the progress of one recover_session call: what tmux has, the cache, the
\* calls of create_claude_session, the sleeps made and the sessions
\* launched so far
Progress(live, cache, creates, sleeps, launches) ==
    [tmux |-> live, cache |-> cache, creates |-> creates, sleeps |-> sleeps,
     launches |-> launches]

\* create_claude_session, lines 240-245: "tmux new-session" was run and
\* exited with 0
Launched(c) ==
    /\ c.outcome = "return" /\ c.ret_ok
    /\ c.cmds = <<"has-session", "new-session">>

Finished(st, error, ret_ok) ==
    [tmux |-> st.tmux, cache |-> st.cache, creates |-> st.creates,
     sleeps |-> st.sleeps, launches |-> st.launches, error |-> error,
     ret_ok |-> ret_ok]

\* recover_session, lines 478-529: the results of the retry loop from the
\* given attempt on
RECURSIVE RetryOutcomes(_, _, _, _)
RetryOutcomes(st, id, attempt, max_retries) ==
    IF LoopEnded(attempt, max_retries)
    THEN {Finished([st EXCEPT !.cache =
                      IF id \in DOMAIN st.cache
                      THEN [st.cache EXCEPT
                              ![id] = MarkRecoveryFailed(st.cache[id], max_retries)]
                      ELSE st.cache],
                   "exhausted", FALSE)}
    ELSE IF id \notin DOMAIN st.cache
    THEN {Finished(st, "not_in_cache", FALSE)}
    ELSE
    LET session_info == st.cache[id]
        work_dir == IF session_info.work_dir = Unset THEN FallbackWorkDir
                    ELSE session_info.work_dir
        options == IF session_info.options = Unset THEN DEFAULT_CLAUDE_OPTIONS
                   ELSE session_info.options
        \* lines 515-518: sleep unless this was the last attempt
        Retry(live, cache, launches) ==
            RetryOutcomes(Progress(live, cache, st.creates + 1,
                                   IF attempt < max_retries THEN st.sleeps + 1
                                   ELSE st.sleeps,
                                   launches),
                          id, attempt + 1, max_retries)
        AfterCreate(c) ==
            IF c.outcome = "return" /\ c.ret_ok
            THEN \* the new process may exit before the health check
                 UNION {LET h == HealthOutcome(live, c.cache, id)
                            launches == IF Launched(c) THEN st.launches + 1
                                        ELSE st.launches
                        IN  IF h.ret_ok
                            THEN {Finished(
                                    Progress(live,
                                             [h.cache EXCEPT
                                                ![id] = MarkRecovered(h.cache[id])],
                                             st.creates + 1, st.sleeps,
                                             launches),
                                    "", TRUE)}
                            ELSE Retry(live, h.cache, launches)
                        : live \in {c.tmux} \cup
                                   (IF id \in DOMAIN c.tmux THEN {Del(c.tmux, id)}
                                    ELSE {})}
            ELSE \* create returned False, or raised and line 512 caught it
                 Retry(c.tmux, c.cache, st.launches)
    IN  UNION {AfterCreate(c) :
                 c \in CreateOutcomes(st.tmux, st.cache, id, work_dir, options)}

\* recover_session, lines 469-529
RecoverOutcomes(live, cache, id, max_retries) ==
    UNION {RetryOutcomes(Progress(k.tmux, k.cache, 0, 0, 0),
                         id, 1, max_retries)
           : k \in KillOutcomes(live, cache, id)}

RecoverSession(id, max_retries) ==
    /\ id \in DOMAIN tm_cache => tm_cache[id].recovery_count < MaxRecoveryCount
    /\ \E o \in RecoverOutcomes(tmux, tm_cache, id, max_retries) :
          /\ tmux' = o.tmux
          /\ tm_cache' = o.cache
          /\ last' = [TmuxCall("recover", id, "return", o.error, o.ret_ok, <<>>)
                        EXCEPT !.max_retries = max_retries,
                               !.creates = o.creates,
                               !.launches = o.launches,
                               !.sleeps = o.sleeps]
          /\ UNCHANGED tmux_installed

\* ----- RecoveryStrategy ---------------------------------------------------
MAX_RETRY_ATTEMPTS == 3
BASE_BACKOFF_SECONDS == 1
MAX_BACKOFF_SECONDS == 60

Min(a, b) == IF a <= b THEN a ELSE b

\* a backoff that is not capped
get_backoff_time_uncapped(attempt) ==
    BASE_BACKOFF_SECONDS * (2 ^ (attempt - 1))

\* get_backoff_time, lines 87-88
get_backoff_time(attempt) ==
    Min(BASE_BACKOFF_SECONDS * (2 ^ (attempt - 1)), MAX_BACKOFF_SECONDS)

\* two attempt numbers, and the backoff times computed for them
Attempts == 1..MaxAttempt
BackoffOf(attempt, later) ==
    [attempt |-> attempt, later |-> later, done |-> FALSE,
     seconds |-> 0, later_seconds |-> 0]
NoBackoff == BackoffOf(0, 0)

GetBackoffTimes ==
    /\ ~backoff.done
    /\ backoff.attempt \in Attempts
    /\ backoff' = [backoff EXCEPT
                     !.done = TRUE,
                     !.seconds = get_backoff_time(backoff.attempt),
                     !.later_seconds = get_backoff_time(backoff.later)]
    /\ last' = [Call("get_backoff_time", None, None, "return", "", None, TRUE)
                  EXCEPT !.attempt = backoff.attempt]

\* ----- AutoRecoverySystem --------------------------------------------------
\* the threads that start_monitoring can have started and that still run
Workers == 1..MaxWorkers

\* a thread that was not started, or has returned from _monitor_sessions
NoWorker == [pc |-> "none", todo |-> <<>>]

\* what SettingsManager gives: CLAUDE_WORK_DIR, and CLAUDE_OPTIONS, which
\* is '' when .env does not set it (settings.py lines 153-161)
ClaudeWorkDir == "/work"
ClaudeOptions == ""

Get(d, k, default) == IF k \in DOMAIN d THEN d[k] ELSE default

\* the error_message of a record: None (""), or some text, which is not
\* told apart here (lines 248, 250, 253)
ErrorMessage(error) == IF error = "" THEN "" ELSE "message"

RecoveryAttempt(session_id, attempt_number, success, error_message) ==
    [session_id |-> session_id, attempt_number |-> attempt_number,
     success |-> success, error_message |-> error_message]

\* RECOVERY_LOG_MAX_ENTRIES, which is 1000 in the source (line 111), scaled
\* down to the histories explored
RECOVERY_LOG_MAX_ENTRIES == MaxLogEntries

\* a save that keeps the oldest entries
OldestHistory(history) ==
    SubSeq(history, 1, Min(Len(history), RECOVERY_LOG_MAX_ENTRIES))

\* _save_recovery_history, line 156, and _load_recovery_history, line 142:
\* history[-RECOVERY_LOG_MAX_ENTRIES:]
RecentHistory(history) ==
    SubSeq(history,
           Len(history) - Min(Len(history), RECOVERY_LOG_MAX_ENTRIES) + 1,
           Len(history))

ValidHistoryFile(records) == [valid |-> TRUE, data |-> records]
\* no file yet
NoHistoryFile == [valid |-> FALSE, data |-> <<>>]
\* a file that json.load rejects
CorruptHistoryFile == [valid |-> FALSE, data |-> <<"corrupt">>]

\* _save_recovery_history, lines 151-165: the file afterwards; an error is
\* logged, and the file is then as it was or cut off by open(..., 'w')
SaveRecoveryHistory(history, file, writable) ==
    IF writable THEN {ValidHistoryFile(RecentHistory(history))}
    ELSE {file, CorruptHistoryFile}

\* _load_recovery_history, lines 136-147
LoadRecoveryHistory(file) ==
    IF file.valid THEN RecentHistory(file.data) ELSE <<>>

\* a counter that a success does not reset
CounterAfterNoReset(attempt_count, success) == attempt_count

\* recover_session, lines 243 and 271: the counter after an attempt
CounterAfter(attempt_count, success) == IF success THEN 0 ELSE attempt_count

\* a failure that is notified every time
NotifyFailureAlways(attempt_count) == TRUE

\* recover_session, line 272
NotifyFailure(attempt_count) == attempt_count >= MAX_RETRY_ATTEMPTS

\* SessionManager.is_session_active
IsSessionActive(cache, id) == id \in DOMAIN cache /\ cache[id].status = "active"

\* a limit that lets one more attempt through
LimitReachedLate(attempt_count) == attempt_count > MAX_RETRY_ATTEMPTS + 1

\* recover_session, line 210
LimitReached(attempt_count) == attempt_count > MAX_RETRY_ATTEMPTS

Attempted(live, cache, success, error, kills) ==
    [tmux |-> live, cache |-> cache, success |-> success, error |-> error,
     kills |-> kills]

\* recover_session, lines 227-252: kill what is there, create, check
AttemptOutcomes(id, work_dir, claude_options) ==
    LET cache0 == CacheAfterExistsIn(tmux, tm_cache, id)
        Killed == IF HasSessionIn(tmux, id)
                  THEN {Attempted(k.tmux, k.cache, FALSE, "", 1) :
                          k \in KillOutcomes(tmux, cache0, id)}
                  ELSE {Attempted(tmux, cache0, FALSE, "", 0)}
        AfterCreate(k, c) ==
            IF c.outcome = "raise"
            THEN {Attempted(c.tmux, c.cache, FALSE, "exception", k.kills)}
            ELSE IF ~c.ret_ok
            THEN {Attempted(c.tmux, c.cache, FALSE, "create_failed", k.kills)}
            ELSE \* the new process may exit before the health check
                 {LET ok == /\ HasSessionIn(live, id)
                            /\ IsSessionActive(sessions_cache, id)
                  IN  Attempted(live, CacheAfterExistsIn(live, c.cache, id), ok,
                                IF ok THEN "" ELSE "health_failed", k.kills)
                  : live \in {c.tmux} \cup
                             (IF id \in DOMAIN c.tmux THEN {Del(c.tmux, id)}
                              ELSE {})}
    IN  UNION {UNION {AfterCreate(k, c) :
                        c \in CreateOutcomes(k.tmux, k.cache, id, work_dir,
                                             claude_options)}
               : k \in Killed}

\* AutoRecoverySystem.recover_session, lines 207-275; writable tells
\* whether logs/recovery_history.json can be written
AutoRecoverSession(id, work_dir, claude_options, writable) ==
    LET attempt_count == Get(recovery_counts, id, 0) + 1
        Done(error, ok, kills, creates, waited, notify) ==
            [TmuxCall("auto_recover", id, "return", error, ok, <<>>)
               EXCEPT !.attempt = attempt_count, !.kills = kills,
                      !.creates = creates, !.sleeps = waited,
                      !.notify = notify]
    IN  IF LimitReached(attempt_count)
        THEN /\ last' = Done("max_attempts", FALSE, 0, 0, 0, "failure")
             /\ UNCHANGED <<tmuxvars, recvars>>
        ELSE /\ Len(recovery_history) < MaxHistory
             /\ \E o \in AttemptOutcomes(id, work_dir, claude_options) :
                   /\ tmux' = o.tmux
                   /\ tm_cache' = o.cache
                   /\ recovery_history' =
                         Append(recovery_history,
                                RecoveryAttempt(id, attempt_count, o.success,
                                                ErrorMessage(o.error)))
                   /\ recovery_counts' =
                         Put(recovery_counts, id,
                             CounterAfter(attempt_count, o.success))
                   /\ history_file' \in
                         SaveRecoveryHistory(recovery_history', history_file,
                                             writable)
                   /\ last' = [Done(o.error, o.success, o.kills, 1,
                                   IF attempt_count > 1
                                   THEN get_backoff_time(attempt_count) ELSE 0,
                                   IF o.success THEN "success"
                                   ELSE IF NotifyFailure(attempt_count)
                                   THEN "failure" ELSE "none")
                                 EXCEPT !.saved = writable]
                   /\ UNCHANGED tmux_installed

\* ----- SettingsManager: sessions.json changed by another process ---------
\* the session numbers of sessions.json
FileSessionNums(file) ==
    {StrToInt(k) : k \in {x \in DOMAIN file.data : IsDigit(x)}}

\* SettingsManager.add_session, lines 98-110; load_sessions raises on a
\* file that is not JSON
SettingsAddSession(channel_id) ==
    LET existing_nums == FileSessionNums(sessions_file)
        next_num == IF existing_nums = {} THEN 1 ELSE Max(existing_nums) + 1
    IN  /\ next_num <= MaxId
        /\ IF sessions_file.valid
           THEN /\ sessions_file' =
                      ValidFile(Put(sessions_file.data, IntToStr(next_num),
                                    channel_id))
                /\ last' = Call("settings_add", next_num, channel_id, "return",
                                "", next_num, TRUE)
           ELSE /\ last' = Call("settings_add", None, channel_id, "raise",
                                "not_json", None, FALSE)
                /\ UNCHANGED sessions_file
        /\ UNCHANGED <<sessions_cache, channel_map, callvars, tmuxvars,
                       autovars>>

\* SettingsManager.remove_session, lines 112-119
SettingsRemoveSession(session_num) ==
    /\ IF ~sessions_file.valid
       THEN /\ last' = Call("settings_remove", session_num, None, "raise",
                            "not_json", None, FALSE)
            /\ UNCHANGED sessions_file
       ELSE IF IntToStr(session_num) \in DOMAIN sessions_file.data
       THEN /\ sessions_file' =
                  ValidFile(Del(sessions_file.data, IntToStr(session_num)))
            /\ last' = Call("settings_remove", session_num, None, "return",
                            "", None, TRUE)
       ELSE /\ last' = Call("settings_remove", session_num, None, "return",
                            "", None, FALSE)
            /\ UNCHANGED sessions_file
    /\ UNCHANGED <<sessions_cache, channel_map, callvars, tmuxvars, autovars>>

\* ----- AutoRecoverySystem: the monitoring thread ---------------------------
\* a list in descending order
RECURSIVE ListSessionsDescending(_)
ListSessionsDescending(cache) ==
    IF DOMAIN cache = {} THEN <<>>
    ELSE LET m == Max(DOMAIN cache)
         IN  <<m>> \o ListSessionsDescending(Del(cache, m))

\* SessionManager.list_sessions, lines 284-287: the entries sorted by
\* session_id, given by their ids
RECURSIVE ListSessions(_)
ListSessions(cache) ==
    IF DOMAIN cache = {} THEN <<>>
    ELSE LET m == Max(DOMAIN cache)
         IN  ListSessions(Del(cache, m)) \o <<m>>

\* a sweep that is given up after a session
RestOfSweepNone(todo) == <<>>

\* _monitor_sessions, line 313: the for loop goes to the next session
RestOfSweep(todo) == Tail(todo)

Worker(wpc, todo) == [pc |-> wpc, todo |-> todo]

MonitorCall(op, w, sid, healthy) ==
    [TmuxCall(op, sid, "return", "", TRUE, <<>>)
       EXCEPT !.worker = w, !.healthy = healthy]

\* a loop that never looks at the event
StopRequestedNever == FALSE

\* _monitor_sessions, line 308: stop_event.is_set()
StopRequested == stop_event

\* _monitor_sessions, lines 308-311 and 332: the test of the while loop,
\* and the list of the sessions for the sweep
W_Loop(w) ==
    /\ workers[w].pc = "loop"
    /\ IF StopRequested
       THEN /\ workers' = [workers EXCEPT ![w] = NoWorker]
            /\ last' = MonitorCall("monitor_exit", w, None, FALSE)
       ELSE /\ workers' = [workers EXCEPT
                             ![w] = Worker("sweep", ListSessions(sessions_cache))]
            /\ last' = MonitorCall("sweep", w, None, FALSE)
    /\ UNCHANGED <<regvars, callvars, tmuxvars, recvars, backoff, monitoring,
                   stop_event, monitor_thread, stop_pc>>

\* lines 314-315: an entry that is not active is passed over
W_Skip(w) ==
    /\ workers[w].pc = "sweep" /\ workers[w].todo # <<>>
    /\ LET id == Head(workers[w].todo)
       IN  /\ ~IsSessionActive(sessions_cache, id)
           /\ last' = MonitorCall("monitor_skip", w, id, FALSE)
    /\ workers' = [workers EXCEPT ![w].todo = RestOfSweep(@)]
    /\ UNCHANGED <<regvars, callvars, tmuxvars, recvars, backoff, monitoring,
                   stop_event, monitor_thread, stop_pc>>

\* lines 317-320 with check_session_health, lines 177-195
W_Check(w) ==
    /\ workers[w].pc = "sweep" /\ workers[w].todo # <<>>
    /\ LET id == Head(workers[w].todo)
           healthy == HasSession(id) /\ IsSessionActive(sessions_cache, id)
       IN  /\ IsSessionActive(sessions_cache, id)
           /\ tm_cache' = CacheAfterExists(tm_cache, id)
           /\ workers' = [workers EXCEPT
                            ![w] = IF healthy
                                   THEN Worker("sweep", RestOfSweep(@.todo))
                                   ELSE Worker("recover", @.todo)]
           /\ last' = MonitorCall("monitor_check", w, id, healthy)
    /\ UNCHANGED <<regvars, callvars, tmux, tmux_installed, recvars, backoff,
                   monitoring, stop_event, monitor_thread, stop_pc>>

\* line 324: asyncio.run(self.recover_session(session_id))
W_Recover(w) ==
    /\ workers[w].pc = "recover"
    /\ AutoRecoverSession(Head(workers[w].todo), ClaudeWorkDir, ClaudeOptions,
                          TRUE)
    /\ workers' = [workers EXCEPT
                     ![w] = Worker("sweep", RestOfSweep(@.todo))]
    /\ UNCHANGED <<regvars, callvars, backoff, monitoring, stop_event,
                   monitor_thread, stop_pc>>

\* line 327: stop_event.wait(HEALTH_CHECK_INTERVAL) returns
W_Wait(w) ==
    /\ workers[w].pc = "sweep" /\ workers[w].todo = <<>>
    /\ workers' = [workers EXCEPT ![w] = Worker("loop", <<>>)]
    /\ last' = MonitorCall("monitor_wait", w, None, FALSE)
    /\ UNCHANGED <<regvars, callvars, tmuxvars, recvars, backoff, monitoring,
                   stop_event, monitor_thread, stop_pc>>

\* a tmux command of the health check (tmux_manager.py line 275) or of the
\* recovery never returns: subprocess.run is called without a timeout, and
\* the thread stays in the call
W_Hang(w) ==
    /\ \/ workers[w].pc = "recover"
       \/ /\ workers[w].pc = "sweep" /\ workers[w].todo # <<>>
          /\ IsSessionActive(sessions_cache, Head(workers[w].todo))
    /\ workers' = [workers EXCEPT ![w].pc = "hung"]
    /\ last' = MonitorCall("hang", w, Head(workers[w].todo), FALSE)
    /\ UNCHANGED <<regvars, callvars, tmuxvars, recvars, backoff, monitoring,
                   stop_event, monitor_thread, stop_pc>>

\* the steps of a monitoring thread whose calls return
MonitorThread(w) ==
    \/ W_Loop(w)
    \/ W_Skip(w)
    \/ W_Check(w)
    \/ W_Recover(w)
    \/ W_Wait(w)

\* a start that does not look at the flag
AlreadyMonitoringNever == FALSE

\* start_monitoring, line 337
AlreadyMonitoring == monitoring

\* start_monitoring, lines 335-348
StartMonitoring ==
    /\ stop_pc = "idle"
    /\ IF AlreadyMonitoring
       THEN /\ last' = [MonitorCall("start_monitoring", None, None, FALSE)
                          EXCEPT !.error = "already_running"]
            /\ UNCHANGED monvars
       ELSE /\ \E w \in Workers : workers[w] = NoWorker
            /\ LET w == CHOOSE x \in Workers :
                          /\ workers[x] = NoWorker
                          /\ \A y \in Workers : workers[y] = NoWorker => x <= y
               IN  /\ monitoring' = TRUE
                   /\ stop_event' = FALSE
                   /\ monitor_thread' = w
                   /\ workers' = [workers EXCEPT ![w] = Worker("loop", <<>>)]
                   /\ last' = MonitorCall("start_monitoring", w, None, FALSE)
            /\ UNCHANGED stop_pc
    /\ UNCHANGED <<regvars, callvars, tmuxvars, recvars, backoff>>

\* stop_monitoring, lines 350-357: up to the join
StopMonitoring ==
    /\ stop_pc = "idle"
    /\ IF ~monitoring
       THEN /\ last' = [MonitorCall("stop_monitoring", None, None, FALSE)
                          EXCEPT !.error = "not_running"]
            /\ UNCHANGED monvars
       ELSE /\ monitoring' = FALSE
            /\ stop_event' = TRUE
            /\ stop_pc' = "joining"
            /\ last' = MonitorCall("stop_call", monitor_thread, None, FALSE)
            /\ UNCHANGED <<monitor_thread, workers>>
    /\ UNCHANGED <<regvars, callvars, tmuxvars, recvars, backoff>>

\* a thread in the middle of a sweep: the for loop does not look at
\* stop_event, the tmux commands left in it run without a time limit and a
\* recovery sleeps for up to 4 + 1 + 2 seconds (lines 220-222, 231, 238)
MidSweep(w) ==
    \/ workers[w].pc = "recover"
    \/ workers[w].pc = "sweep" /\ workers[w].todo # <<>>

\* stop_monitoring, lines 360-363: join(timeout=5) returns when the thread
\* has ended, or after 5 seconds while the thread is still in its sweep
StopReturns ==
    /\ stop_pc = "joining"
    /\ workers[monitor_thread] = NoWorker \/ MidSweep(monitor_thread)
    /\ stop_pc' = "idle"
    /\ last' = [MonitorCall("stop_monitoring", monitor_thread, None, FALSE)
                  EXCEPT !.ret_ok = (workers[monitor_thread] = NoWorker)]
    /\ UNCHANGED <<regvars, callvars, tmuxvars, recvars, backoff, monitoring,
                   stop_event, monitor_thread, workers>>

\* AutoRecoverySystem(), lines 113-132, in a new process: a SessionManager
\* and a TmuxManager of its own, no counters, the history of the file
NewAutoRecoverySystem ==
    /\ sessions_cache' = LoadSessions(sessions_file).cache
    /\ channel_map' = LoadSessions(sessions_file).map
    /\ tm_cache' = [id \in (IF tmux_installed THEN DOMAIN tmux ELSE {}) |->
                      ListedEntry]
    /\ recovery_history' = LoadRecoveryHistory(history_file)
    /\ recovery_counts' = EmptyDict
    /\ monitoring' = FALSE
    /\ stop_event' = FALSE
    /\ monitor_thread' = None
    /\ workers' = [w \in Workers |-> NoWorker]
    /\ stop_pc' = "idle"
    /\ last' = Call("init", None, None, "return", "", None, TRUE)
    /\ UNCHANGED <<sessions_file, tmux, tmux_installed, history_file, callvars,
                   backoff>>

\* environment: the process in a tmux session exits and the session closes
SessionDies(id) ==
    /\ id \in DOMAIN tmux
    /\ tmux' = Del(tmux, id)
    /\ last' = TmuxCall("dies", id, "return", "", TRUE, <<>>)
    /\ UNCHANGED <<tm_cache, tmux_installed>>

\* ----- specifications --------------------------------------------------
\* AutoRecoverySystem() with no history file; no backoff computed
InitAutoRecovery ==
    /\ recovery_counts = EmptyDict
    /\ recovery_history = <<>>
    /\ history_file = NoHistoryFile
    /\ monitoring = FALSE
    /\ stop_event = FALSE
    /\ monitor_thread = None
    /\ workers = [w \in Workers |-> NoWorker]
    /\ stop_pc = "idle"

InitRegistry ==
    /\ InitAutoRecovery
    /\ backoff = NoBackoff
    /\ sessions_file = ValidFile(EmptyDict)
    /\ sessions_cache = EmptyDict
    /\ channel_map = EmptyDict
    /\ last = Call("init", None, None, "return", "", None, TRUE)
    /\ pc = [t \in Callers |-> "idle"]
    /\ local = [t \in Callers |-> NoLocal]

\* the registry on its own, one caller
Init ==
    /\ InitRegistry
    /\ tmux_installed = TRUE
    /\ tmux = EmptyDict
    /\ tm_cache = EmptyDict

Next ==
    \/ \E c \in Channels : AddSession(c) /\ UNCHANGED <<callvars, tmuxvars, autovars>>
    \/ \E id \in SessionIds : RemoveSession(id) /\ UNCHANGED <<callvars, tmuxvars, autovars>>
    \/ \E id \in SessionIds, h \in BOOLEAN :
          UpdateSessionHealth(id, h) /\ UNCHANGED <<callvars, tmuxvars, autovars>>
    \/ NewSessionManager /\ UNCHANGED <<callvars, tmuxvars, autovars>>

Spec == Init /\ [][Next]_vars

\* the bot: its SessionManager and the messages it routes
NextBot ==
    \/ \E c \in Channels : AddSession(c) /\ UNCHANGED <<callvars, tmuxvars, autovars>>
    \/ \E id \in SessionIds : RemoveSession(id) /\ UNCHANGED <<callvars, tmuxvars, autovars>>
    \/ \E id \in SessionIds, h \in BOOLEAN :
          UpdateSessionHealth(id, h) /\ UNCHANGED <<callvars, tmuxvars, autovars>>
    \/ \E c \in Channels, e \in EnvDefaults :
          OnMessage(c, e) /\ UNCHANGED <<callvars, tmuxvars, autovars>>

SpecBot == Init /\ [][NextBot]_vars

\* the registry with concurrent callers of add_session
NextConc ==
    \E t \in Callers :
        \/ \E c \in Channels : T_Call(t, c) /\ UNCHANGED <<tmuxvars, autovars>>
        \/ T_Check(t) /\ UNCHANGED <<tmuxvars, autovars>>
        \/ T_Backup(t) /\ UNCHANGED <<tmuxvars, autovars>>
        \/ T_NewId(t) /\ UNCHANGED <<tmuxvars, autovars>>
        \/ T_PutCache(t) /\ UNCHANGED <<tmuxvars, autovars>>
        \/ T_PutMap(t) /\ UNCHANGED <<tmuxvars, autovars>>
        \/ T_BuildDict(t) /\ UNCHANGED <<tmuxvars, autovars>>
        \/ T_Write(t) /\ UNCHANGED <<tmuxvars, autovars>>

SpecConc == Init /\ [][NextConc]_vars

\* TmuxManager(): _load_session_states caches the sessions tmux lists
InitTmux ==
    /\ InitRegistry
    /\ tmux_installed \in BOOLEAN
    /\ \E live \in SUBSET TmuxIds :
          tmux = [id \in (IF tmux_installed THEN live ELSE {}) |->
                    [work_dir |-> "/work", options |-> DEFAULT_CLAUDE_OPTIONS]]
    /\ tm_cache = [id \in DOMAIN tmux |-> ListedEntry]

NextTmux ==
    \E id \in TmuxIds :
        \/ IsClaudeSessionExists(id) /\ UNCHANGED <<regvars, callvars, autovars>>
        \/ \E w \in WorkDirs, o \in Options \cup {Unset} :
              CreateClaudeSession(id, w, o) /\ UNCHANGED <<regvars, callvars, autovars>>
        \/ KillClaudeSession(id) /\ UNCHANGED <<regvars, callvars, autovars>>
        \/ CheckSessionHealth(id) /\ UNCHANGED <<regvars, callvars, autovars>>
        \/ SessionDies(id) /\ UNCHANGED <<regvars, callvars, autovars>>

SpecTmux == InitTmux /\ [][NextTmux]_vars

\* the listing of the sessions among creates, kills and sessions that die
NextList ==
    \/ ListClaudeSessions /\ UNCHANGED <<regvars, callvars, autovars>>
    \/ \E id \in TmuxIds :
        \/ IsClaudeSessionExists(id) /\ UNCHANGED <<regvars, callvars, autovars>>
        \/ CreateClaudeSession(id, "/work", Unset)
              /\ UNCHANGED <<regvars, callvars, autovars>>
        \/ KillClaudeSession(id) /\ UNCHANGED <<regvars, callvars, autovars>>
        \/ SessionDies(id) /\ UNCHANGED <<regvars, callvars, autovars>>

SpecList == InitTmux /\ [][NextList]_vars

\* a sessions.json that maps every session to a channel of its own
RegisteredFile ==
    ValidFile([s \in {IntToStr(k) : k \in TmuxIds} |-> StrToInt(s)])

\* SessionManager() over RegisteredFile, and TmuxManager()
InitRecover ==
    /\ InitAutoRecovery
    /\ backoff = NoBackoff
    /\ sessions_file = RegisteredFile
    /\ sessions_cache = LoadSessions(RegisteredFile).cache
    /\ channel_map = LoadSessions(RegisteredFile).map
    /\ last = Call("init", None, None, "return", "", None, TRUE)
    /\ pc = [t \in Callers |-> "idle"]
    /\ local = [t \in Callers |-> NoLocal]
    /\ tmux_installed \in BOOLEAN
    /\ \E live \in SUBSET TmuxIds :
          tmux = [id \in (IF tmux_installed THEN live ELSE {}) |->
                    [work_dir |-> "/work", options |-> DEFAULT_CLAUDE_OPTIONS]]
    /\ tm_cache = [id \in DOMAIN tmux |-> ListedEntry]

NextRecover ==
    \/ \E id \in TmuxIds :
          SessionDies(id) /\ UNCHANGED <<regvars, callvars, autovars>>
    \/ \E id \in RecoverIds :
        \/ CreateClaudeSession(id, "/work", Unset) /\ UNCHANGED <<regvars, callvars, autovars>>
        \/ KillClaudeSession(id) /\ UNCHANGED <<regvars, callvars, autovars>>
        \/ \E r \in RetryChoices :
              RecoverSession(id, r) /\ UNCHANGED <<regvars, callvars, autovars>>

SpecRecover == InitRecover /\ [][NextRecover]_vars

\* the automatic recovery of sessions that were created and then died
NextAuto ==
    \/ \E id \in TmuxIds :
          SessionDies(id) /\ UNCHANGED <<regvars, callvars, autovars>>
    \/ \E id \in RecoverIds :
        \/ CreateClaudeSession(id, "/other", Unset)
              /\ UNCHANGED <<regvars, callvars, autovars>>
        \/ AutoRecoverSession(id, ClaudeWorkDir, ClaudeOptions, TRUE)
              /\ UNCHANGED <<regvars, callvars, backoff, monvars>>

SpecAuto == InitRecover /\ [][NextAuto]_vars

\* the automatic recovery and its history file, which cannot always be
\* written, over restarts of the process
InitHistory ==
    /\ InitAutoRecovery
    /\ backoff = NoBackoff
    /\ sessions_file = RegisteredFile
    /\ sessions_cache = LoadSessions(RegisteredFile).cache
    /\ channel_map = LoadSessions(RegisteredFile).map
    /\ last = Call("init", None, None, "return", "", None, TRUE)
    /\ pc = [t \in Callers |-> "idle"]
    /\ local = [t \in Callers |-> NoLocal]
    /\ tmux_installed = TRUE
    /\ tmux = [id \in TmuxIds |->
                 [work_dir |-> "/work", options |-> DEFAULT_CLAUDE_OPTIONS]]
    /\ tm_cache = [id \in DOMAIN tmux |-> ListedEntry]

NextHistory ==
    \/ \E id \in RecoverIds, writable \in BOOLEAN :
          AutoRecoverSession(id, ClaudeWorkDir, ClaudeOptions, writable)
             /\ UNCHANGED <<regvars, callvars, backoff, monvars>>
    \/ NewAutoRecoverySystem

SpecHistory == InitHistory /\ [][NextHistory]_vars

\* the monitoring thread, started once, over sessions of which some die
\* and of which the last is marked healthy or not
NextMonitor ==
    \/ \E id \in RecoverIds :
          SessionDies(id) /\ UNCHANGED <<regvars, callvars, autovars>>
    \/ \E is_healthy \in BOOLEAN :
          UpdateSessionHealth(NumTmuxIds, is_healthy)
             /\ UNCHANGED <<callvars, tmuxvars, autovars>>
    \/ StartMonitoring
    \/ \E w \in Workers :
        \/ W_Loop(w)
        \/ W_Skip(w)
        \/ W_Check(w)
        \/ W_Recover(w)
        \/ W_Wait(w)

SpecMonitor == InitHistory /\ [][NextMonitor]_vars

\* the monitoring thread with starts and stops of the monitoring; every
\* entry of the registry stays active, so that none is passed over
NextStop ==
    \/ \E id \in RecoverIds :
          SessionDies(id) /\ UNCHANGED <<regvars, callvars, autovars>>
    \/ StartMonitoring
    \/ StopMonitoring
    \/ StopReturns
    \/ \E w \in Workers :
        \/ W_Loop(w)
        \/ W_Check(w)
        \/ W_Recover(w)
        \/ W_Wait(w)

SpecStop == InitHistory /\ [][NextStop]_vars

\* the monitoring thread with tmux commands that may never return; a
\* thread that can take a step takes it
NextHang ==
    \/ \E id \in RecoverIds :
          SessionDies(id) /\ UNCHANGED <<regvars, callvars, autovars>>
    \/ StartMonitoring
    \/ \E w \in Workers :
        \/ W_Loop(w)
        \/ W_Check(w)
        \/ W_Recover(w)
        \/ W_Wait(w)
        \/ W_Hang(w)

SpecHang ==
    /\ InitHistory
    /\ [][NextHang]_vars
    /\ \A w \in Workers : WF_vars(MonitorThread(w))

\* the monitoring thread while another process adds sessions to
\* sessions.json and removes sessions from it
NextDrift ==
    \/ \E c \in Channels :
          SettingsAddSession(c)
    \/ \E id \in SessionIds :
          SettingsRemoveSession(id)
    \/ \E id \in RecoverIds :
          SessionDies(id) /\ UNCHANGED <<regvars, callvars, autovars>>
    \/ StartMonitoring
    \/ \E w \in Workers :
        \/ W_Loop(w)
        \/ W_Check(w)
        \/ W_Recover(w)
        \/ W_Wait(w)

SpecDrift == InitHistory /\ [][NextDrift]_vars

\* the monitoring started once and stopped once; a thread that can take a
\* step takes it
NextStopOnce ==
    \/ \E id \in RecoverIds :
          SessionDies(id) /\ UNCHANGED <<regvars, callvars, autovars>>
    \/ /\ ~stop_event
       /\ \A w \in Workers : workers[w] = NoWorker
       /\ StartMonitoring
    \/ StopMonitoring
    \/ StopReturns
    \/ \E w \in Workers :
        \/ W_Loop(w)
        \/ W_Check(w)
        \/ W_Recover(w)
        \/ W_Wait(w)

SpecStopOnce ==
    /\ InitHistory
    /\ [][NextStopOnce]_vars
    /\ \A w \in Workers : WF_vars(MonitorThread(w))

\* get_backoff_time applied to two attempt numbers
InitBackoff ==
    /\ InitAutoRecovery
    /\ \E n \in Attempts, m \in Attempts : backoff = BackoffOf(n, m)
    /\ sessions_file = ValidFile(EmptyDict)
    /\ sessions_cache = EmptyDict
    /\ channel_map = EmptyDict
    /\ last = Call("init", None, None, "return", "", None, TRUE)
    /\ pc = [t \in Callers |-> "idle"]
    /\ local = [t \in Callers |-> NoLocal]
    /\ tmux_installed = TRUE
    /\ tmux = EmptyDict
    /\ tm_cache = EmptyDict

NextBackoff ==
    GetBackoffTimes /\ UNCHANGED <<regvars, callvars, tmuxvars, recvars,
                                   monvars>>

SpecBackoff == InitBackoff /\ [][NextBackoff]_vars

\* ----- properties ------------------------------------------------------

\* C1: no two registry entries share a channel_id and no two share a
\* session_id, whatever add and remove calls a single caller has made.
C1_Uniqueness ==
    \A i, j \in DOMAIN sessions_cache :
        i # j => /\ sessions_cache[i].channel_id # sessions_cache[j].channel_id
                 /\ sessions_cache[i].session_id # sessions_cache[j].session_id

\* two entries are present after an add that followed a remove
C1_Witness ==
    /\ last.op = "add" /\ last.outcome = "return" /\ last.ret_id = 3
    /\ Cardinality(DOMAIN sessions_cache) = 2

\* C2: an add that returns gives max(ids in the registry before the call) + 1,
\* or 1 when the registry was empty.
C2_MaxPlusOne ==
    [][(last'.op = "add" /\ last'.outcome = "return") =>
          last'.ret_id = IF DOMAIN sessions_cache = {} THEN 1
                         ELSE Max(DOMAIN sessions_cache) + 1]_vars

\* registry {1,2}, remove(1), add returned 3 and not the freed id 1
C2_Witness ==
    /\ last.op = "add" /\ last.outcome = "return" /\ last.ret_id = 3
    /\ DOMAIN sessions_cache = {2, 3}

\* C3: concurrent adds for distinct channels on an empty registry end with
\* one entry per caller, ids 1..n, each channel mapped to its own entry.
C3_ConcurrentAdds ==
    (/\ \A t \in Callers : pc[t] = "done"
     /\ \A t, u \in Callers :
           t # u => local[t].channel_id # local[u].channel_id)
    => /\ DOMAIN sessions_cache = 1..Cardinality(Callers)
       /\ \A t \in Callers :
             /\ local[t].channel_id \in DOMAIN channel_map
             /\ channel_map[local[t].channel_id] \in DOMAIN sessions_cache
             /\ sessions_cache[channel_map[local[t].channel_id]].channel_id
                   = local[t].channel_id
       /\ \A t, u \in Callers :
             t # u => channel_map[local[t].channel_id]
                         # channel_map[local[u].channel_id]

\* C4: an add whose save fails raises and leaves sessions_cache and
\* channel_map as they were before the call.
C4_AddRollsBack ==
    [][(last'.op = "add" /\ last'.error = "save_failed") =>
          /\ last'.outcome = "raise"
          /\ sessions_cache' = sessions_cache
          /\ channel_map' = channel_map]_vars

\* C5: an add for a channel that is already in channel_map raises and
\* changes neither the caches nor sessions.json.
C5_DuplicateRejected ==
    [][(last'.op = "add" /\ last'.cid \in DOMAIN channel_map) =>
          /\ last'.outcome = "raise"
          /\ last'.error = "already_mapped"
          /\ sessions_cache' = sessions_cache
          /\ channel_map' = channel_map
          /\ sessions_file' = sessions_file]_vars

\* a duplicate add was rejected, for a channel whose entry is marked error
C5_Witness ==
    /\ last.op = "add" /\ last.error = "already_mapped"
    /\ last.cid \in DOMAIN channel_map
    /\ sessions_cache[channel_map[last.cid]].status = "error"

\* C6: a remove of a present session whose save fails restores both caches
\* and does not report success.
C6_RemoveRollsBack ==
    [][(last'.op = "remove" /\ last'.error = "save_failed") =>
          /\ ~last'.ret_ok
          /\ sessions_cache' = sessions_cache
          /\ channel_map' = channel_map
          /\ last'.sid \in DOMAIN sessions_cache'
          /\ sessions_cache'[last'.sid].channel_id \in DOMAIN channel_map']_vars

\* a remove failed on the save and its session is still cached
C6_Witness ==
    /\ last.op = "remove" /\ last.error = "save_failed"
    /\ last.sid \in DOMAIN sessions_cache
    /\ ~sessions_file.valid

\* C7 as stated: a remove of an id that is not in the registry returns true.
C7_RemoveAbsentTrue ==
    [][(last'.op = "remove" /\ last'.sid \notin DOMAIN sessions_cache) =>
          last'.ret_ok]_vars

\* C7 amended: a remove of an id that is not in the registry returns false
\* and changes nothing; a remove that returns true leaves the id absent, so
\* the same remove repeated at once returns false.
C7_RemoveAbsentFalse ==
    [][last'.op = "remove" =>
          IF last'.sid \notin DOMAIN sessions_cache
          THEN /\ ~last'.ret_ok
               /\ sessions_cache' = sessions_cache
               /\ channel_map' = channel_map
               /\ sessions_file' = sessions_file
          ELSE last'.ret_ok => last'.sid \notin DOMAIN sessions_cache']_vars

\* a remove found nothing for an id that had been assigned earlier
C7_Witness ==
    /\ last.op = "remove" /\ last.error = "not_found" /\ ~last.ret_ok
    /\ \E k \in DOMAIN sessions_cache : k > last.sid

\* C8: a kill of a session that tmux does not have returns true and runs no
\* kill-session; a kill that returns true leaves the session absent, so the
\* same kill repeated at once returns true.
C8_KillIdempotent ==
    [][last'.op = "kill" =>
          IF ~HasSession(last'.sid)
          THEN /\ last'.ret_ok
               /\ \A i \in 1..Len(last'.cmds) : last'.cmds[i] # "kill-session"
               /\ tmux' = tmux
          ELSE last'.ret_ok => last'.sid \notin DOMAIN tmux']_vars

\* a kill found a cached session already gone and returned true
C8_Witness ==
    /\ last.op = "kill" /\ last.ret_ok /\ last.cmds = <<"has-session">>
    /\ last.sid \in DOMAIN tm_cache
    /\ tm_cache[last.sid].status = "stopped"

\* C9: after add(c) has returned id, a manager loaded from sessions.json maps
\* id to c and c to id.
C9_RoundTrip ==
    (last.op = "add" /\ last.outcome = "return") =>
        LET m == LoadSessions(sessions_file)
        IN  /\ GetChannelBySession(m.cache, last.ret_id) = last.cid
            /\ GetSessionByChannel(m.cache, m.map, last.cid) = last.ret_id

\* an add returned while another entry, marked error, is left out of the file
C9_Witness ==
    /\ last.op = "add" /\ last.outcome = "return"
    /\ \E k \in DOMAIN sessions_cache : sessions_cache[k].status = "error"
    /\ Cardinality(DOMAIN sessions_file.data) = 1

ActiveEntry(id, c) ==
    /\ id \in DOMAIN sessions_cache
    /\ sessions_cache[id].session_id = id
    /\ sessions_cache[id].channel_id = c
    /\ sessions_cache[id].status = "active"

C10_LookupState ==
    /\ \A c \in Channels :
          LET r == GetSessionByChannel(sessions_cache, channel_map, c)
          IN  /\ \A id \in SessionIds : (r = id) <=> ActiveEntry(id, c)
              /\ (r = None) <=> ~\E id \in SessionIds : ActiveEntry(id, c)
    /\ \A id \in SessionIds :
          LET r == GetChannelBySession(sessions_cache, id)
          IN  /\ \A c \in Channels : (r = c) <=> ActiveEntry(id, c)
              /\ (r = None) <=> ~\E c \in Channels : ActiveEntry(id, c)

C10_HealthStep ==
    last'.op = "update_health" =>
        IF last'.sid \notin DOMAIN sessions_cache
        THEN /\ sessions_cache' = sessions_cache
             /\ channel_map' = channel_map
             /\ sessions_file' = sessions_file
        ELSE LET id == last'.sid
                 c == sessions_cache[id].channel_id
             IN  IF last'.healthy
                 THEN /\ GetSessionByChannel(sessions_cache', channel_map', c) = id
                      /\ GetChannelBySession(sessions_cache', id) = c
                 ELSE /\ GetSessionByChannel(sessions_cache', channel_map', c) = None
                      /\ GetChannelBySession(sessions_cache', id) = None

\* C10: both lookups return an entry exactly when it is present and active;
\* update_health(id, false) hides the entry from both, update_health(id, true)
\* shows it again, and update_health of an unknown id changes nothing.
C10_Lookups == []C10_LookupState /\ [][C10_HealthStep]_vars

\* update_health(id, true) has made an entry visible again while another
\* entry is hidden
C10_Witness ==
    /\ last.op = "update_health" /\ last.healthy
    /\ last.sid \in DOMAIN sessions_cache
    /\ sessions_cache[last.sid].last_health_check
    /\ \E k \in DOMAIN sessions_cache :
          /\ sessions_cache[k].status = "error"
          /\ sessions_cache[k].channel_id \in DOMAIN channel_map
          /\ GetSessionByChannel(sessions_cache, channel_map,
                                 sessions_cache[k].channel_id) = None
\* C11: an accepted message is routed to one session: the session of the
\* active entry of its channel when there is one, otherwise the configured
\* default session, which is 1 when none is configured.
C11_Routing ==
    last.op = "message" =>
        /\ \A id \in SessionIds : ActiveEntry(id, last.cid) => last.ret_id = id
        /\ (~\E id \in SessionIds : ActiveEntry(id, last.cid)) =>
              \/ last.env = EnvUnset /\ last.ret_id = 1
              \/ last.env # EnvUnset /\ IntToStr(last.ret_id) = last.env

\* a message for a channel whose entry is marked error went to the
\* configured default session 2
C11_Witness ==
    /\ last.op = "message" /\ last.ret_id = 2 /\ last.env = <<2>>
    /\ last.cid \in DOMAIN channel_map
    /\ channel_map[last.cid] # 2
    /\ sessions_cache[channel_map[last.cid]].status = "error"
\* C12: a create for a session that tmux already has returns true, runs no
\* new-session, and leaves the live session and the cached work_dir and
\* options of the id as they were.
C12_CreateExisting ==
    [][(last'.op = "create" /\ HasSession(last'.sid)) =>
          /\ last'.outcome = "return" /\ last'.ret_ok
          /\ \A i \in 1..Len(last'.cmds) : last'.cmds[i] # "new-session"
          /\ tmux' = tmux
          /\ DOMAIN tm_cache' = DOMAIN tm_cache
          /\ last'.sid \in DOMAIN tm_cache =>
                /\ tm_cache'[last'.sid].work_dir = tm_cache[last'.sid].work_dir
                /\ tm_cache'[last'.sid].options = tm_cache[last'.sid].options]_vars

\* a create found the session it had launched in /other and did nothing
C12_Witness ==
    /\ last.op = "create" /\ last.ret_ok /\ last.cmds = <<"has-session">>
    /\ last.sid \in DOMAIN tmux /\ last.sid \in DOMAIN tm_cache
    /\ tmux[last.sid].work_dir = "/other"
    /\ tm_cache[last.sid].work_dir = "/other"

\* C13: a create that cannot launch, because tmux is missing or because
\* new-session fails, returns false without raising and does not cache the
\* id as an active, newly created session.
C13_CreateFailureReturnsFalse ==
    [][(last'.op = "create" /\ last'.error \in {"tmux_missing", "launch_failed"}) =>
          /\ last'.outcome = "return"
          /\ ~last'.ret_ok
          /\ last'.sid \in DOMAIN tm_cache' =>
                /\ last'.sid \in DOMAIN tm_cache
                /\ tm_cache'[last'.sid].work_dir = tm_cache[last'.sid].work_dir
                /\ tm_cache'[last'.sid].status # "active"]_vars

\* C14: recover(id, max_retries = R) calls create at most R times and
\* returns false after the R-th failed attempt; there is no (R+1)-th
\* attempt, and it sleeps only between two attempts: once less than it
\* called create.
C14_RecoveryBound ==
    last.op = "recover" =>
        /\ last.creates <= last.max_retries
        /\ last.error = "exhausted" =>
              ~last.ret_ok /\ last.creates = last.max_retries
        /\ (~last.ret_ok /\ last.creates = last.max_retries) =>
              last.error = "exhausted"
        /\ last.sleeps = IF last.creates = 0 THEN 0 ELSE last.creates - 1

\* all three attempts of a recover with the default max_retries failed
C14_Witness ==
    /\ last.op = "recover" /\ last.error = "exhausted"
    /\ last.max_retries = DefaultMaxRetries
    /\ last.creates = DefaultMaxRetries /\ last.sleeps = DefaultMaxRetries - 1

\* C15: a recover(id) that returns true sets the cached status of id to
\* recovered and makes its recovery_count one more than it was before the
\* call.
C15_CountIncrements ==
    [][(last'.op = "recover" /\ last'.ret_ok) =>
          /\ last'.sid \in DOMAIN tm_cache /\ last'.sid \in DOMAIN tm_cache'
          /\ tm_cache'[last'.sid].status = "recovered"
          /\ tm_cache'[last'.sid].recovery_count =
                tm_cache[last'.sid].recovery_count + 1]_vars

\* C16: when every attempt of recover(id) failed, recover returns false and
\* the cache entry of id has status recovery_failed and recovery_attempts
\* equal to max_retries.
C16_Exhausted ==
    (last.op = "recover" /\ last.error = "exhausted") =>
        /\ ~last.ret_ok
        /\ last.sid \in DOMAIN tm_cache
        /\ tm_cache[last.sid].status = "recovery_failed"
        /\ tm_cache[last.sid].recovery_attempts = last.max_retries

\* both attempts of a recover with max_retries = 2 failed and the entry
\* records it
C16_Witness ==
    /\ last.op = "recover" /\ last.error = "exhausted" /\ ~last.ret_ok
    /\ last.max_retries = 2 /\ last.creates = 2
    /\ last.sid \in DOMAIN tm_cache
    /\ tm_cache[last.sid].status = "recovery_failed"
    /\ tm_cache[last.sid].recovery_attempts = 2

\* C18: create, kill and recover called for a session leave the cache
\* entry of every other session, and the whole registry with its stored
\* mapping, as they were.
C18_Isolation ==
    [][last'.op \in {"create", "kill", "recover"} =>
          /\ \A b \in TmuxIds \ {last'.sid} :
                /\ b \in DOMAIN tm_cache' <=> b \in DOMAIN tm_cache
                /\ b \in DOMAIN tm_cache => tm_cache'[b] = tm_cache[b]
          /\ sessions_cache' = sessions_cache
          /\ channel_map' = channel_map
          /\ sessions_file' = sessions_file]_vars

\* a session was recovered while another one is cached and registered
C18_Witness ==
    /\ last.op = "recover" /\ last.ret_ok
    /\ \E b \in TmuxIds \ {last.sid} :
          /\ b \in DOMAIN tm_cache /\ b \in DOMAIN sessions_cache
          /\ IntToStr(b) \in DOMAIN sessions_file.data

\* C17: a session recovered successfully, by TmuxManager.recover_session or
\* by AutoRecoverySystem.recover_session, runs afterwards with the work_dir
\* and the options that were cached for it when it was created, and they
\* are still the ones cached for it.
C17_RelaunchPreserves ==
    [][(/\ last'.op \in {"recover", "auto_recover"} /\ last'.ret_ok
        /\ last'.sid \in DOMAIN tm_cache
        /\ tm_cache[last'.sid].work_dir # Unset) =>
          /\ last'.sid \in DOMAIN tmux' /\ last'.sid \in DOMAIN tm_cache'
          /\ tmux'[last'.sid].work_dir = tm_cache[last'.sid].work_dir
          /\ tmux'[last'.sid].options = tm_cache[last'.sid].options
          /\ tm_cache'[last'.sid].work_dir = tm_cache[last'.sid].work_dir
          /\ tm_cache'[last'.sid].options = tm_cache[last'.sid].options]_vars

\* C19: get_backoff_time(n) is min(2^(n-1), 60) for every attempt n >= 1:
\* 1, 2, 4 for n = 1, 2, 3, at most 60, 60 for n = 7, and not less than for
\* an earlier attempt.
C19_Backoff ==
    backoff.done =>
        LET n == backoff.attempt
            t == backoff.seconds
        IN  /\ t = (IF 2 ^ (n - 1) <= 60 THEN 2 ^ (n - 1) ELSE 60)
            /\ n = 1 => t = 1
            /\ n = 2 => t = 2
            /\ n = 3 => t = 4
            /\ n = 7 => t = 60
            /\ t <= 60
            /\ n <= backoff.later => t <= backoff.later_seconds

\* the backoff of attempt 7 was computed, and that of a later attempt
C19_Witness ==
    /\ backoff.done /\ backoff.attempt = 7 /\ backoff.seconds = 60
    /\ backoff.later > 7 /\ backoff.later_seconds = 60

\* C20: recovery_counts never exceeds MAX_RETRY_ATTEMPTS and no recorded
\* attempt has a higher number; an automatic recovery of a session whose
\* counter is MAX_RETRY_ATTEMPTS notifies the failure, returns false, runs
\* no kill and no create, appends nothing to the history and leaves the
\* counter, the tmux sessions and the cache as they were.
C20_LimitState ==
    /\ \A id \in DOMAIN recovery_counts :
          recovery_counts[id] \in 0..MAX_RETRY_ATTEMPTS
    /\ \A i \in 1..Len(recovery_history) :
          recovery_history[i].attempt_number \in 1..MAX_RETRY_ATTEMPTS

C20_LimitStep ==
    (/\ last'.op = "auto_recover"
     /\ Get(recovery_counts, last'.sid, 0) = MAX_RETRY_ATTEMPTS) =>
        /\ last'.notify = "failure" /\ ~last'.ret_ok
        /\ last'.kills = 0 /\ last'.creates = 0
        /\ recovery_history' = recovery_history
        /\ recovery_counts' = recovery_counts
        /\ tmux' = tmux /\ tm_cache' = tm_cache

C20_AttemptLimit == [](C20_LimitState) /\ [][C20_LimitStep]_vars

\* a recovery was asked for after three failed attempts, and refused
C20_Witness ==
    /\ last.op = "auto_recover" /\ last.error = "max_attempts"
    /\ last.notify = "failure" /\ last.attempt = MAX_RETRY_ATTEMPTS + 1
    /\ recovery_counts[last.sid] = MAX_RETRY_ATTEMPTS
    /\ Len(recovery_history) = MAX_RETRY_ATTEMPTS

\* C21: an automatic recovery that acts appends exactly one RecoveryAttempt
\* whose attempt_number is the counter plus one; on success the record has
\* success = true and the counter becomes 0, on failure it has success =
\* false with an error message and the counter becomes the attempt number.
C21_OneRecordPerAttempt ==
    [][(/\ last'.op = "auto_recover"
        /\ Get(recovery_counts, last'.sid, 0) < MAX_RETRY_ATTEMPTS) =>
          /\ Len(recovery_history') = Len(recovery_history) + 1
          /\ SubSeq(recovery_history', 1, Len(recovery_history)) = recovery_history
          /\ LET r == recovery_history'[Len(recovery_history')]
             IN  /\ r.session_id = last'.sid
                 /\ r.attempt_number = Get(recovery_counts, last'.sid, 0) + 1
                 /\ r.success = last'.ret_ok
                 /\ r.success =>
                       r.error_message = "" /\ recovery_counts'[last'.sid] = 0
                 /\ ~r.success =>
                       /\ r.error_message # ""
                       /\ recovery_counts'[last'.sid] = r.attempt_number]_vars

\* a second attempt succeeded: its record is numbered 2 and the counter is 0
C21_Witness ==
    /\ last.op = "auto_recover" /\ last.ret_ok /\ last.attempt = 2
    /\ recovery_counts[last.sid] = 0
    /\ Len(recovery_history) = 2
    /\ recovery_history[2].attempt_number = 2 /\ recovery_history[2].success
    /\ ~recovery_history[1].success

\* the failed attempts recorded for a session since its last success
RECURSIVE TrailingFailures(_, _)
TrailingFailures(history, id) ==
    IF history = <<>> THEN 0
    ELSE LET r == history[Len(history)]
             before == SubSeq(history, 1, Len(history) - 1)
         IN  IF r.session_id # id THEN TrailingFailures(before, id)
             ELSE IF r.success THEN 0
             ELSE 1 + TrailingFailures(before, id)

\* C22: three recoveries of a session that fail one after the other append
\* three records, one each, and the failure is notified once, by the third:
\* the counter is the number of failures recorded since the last success,
\* and a failed attempt notifies exactly when that number reaches 3.
C22_CountsFailures ==
    \A id \in DOMAIN recovery_counts :
        recovery_counts[id] = TrailingFailures(recovery_history, id)

C22_FailedStep ==
    (last'.op = "auto_recover" /\ ~last'.ret_ok /\ last'.error # "max_attempts") =>
        /\ Len(recovery_history') = Len(recovery_history) + 1
        /\ TrailingFailures(recovery_history', last'.sid) =
              TrailingFailures(recovery_history, last'.sid) + 1
        /\ last'.notify = "failure" <=>
              TrailingFailures(recovery_history', last'.sid) = 3
        /\ last'.notify # "failure" => last'.notify = "none"

C22_ThreeFailures == [](C22_CountsFailures) /\ [][C22_FailedStep]_vars

\* the third failure in a row was recorded and notified
C22_Witness ==
    /\ last.op = "auto_recover" /\ ~last.ret_ok /\ last.notify = "failure"
    /\ Len(recovery_history) = 3
    /\ \A i \in 1..3 :
          /\ recovery_history[i].session_id = last.sid
          /\ recovery_history[i].attempt_number = i
          /\ ~recovery_history[i].success

\* C23: once the automatic recovery of a session has failed
\* MAX_RETRY_ATTEMPTS times in a row, the TmuxManager cache has the status
\* recovery_failed for it.
C23_StatusRecoveryFailed ==
    \A id \in DOMAIN recovery_counts :
        recovery_counts[id] = MAX_RETRY_ATTEMPTS =>
            /\ id \in DOMAIN tm_cache
            /\ tm_cache[id].status = "recovery_failed"

\* C28: the history file never holds more than RECOVERY_LOG_MAX_ENTRIES
\* records; after a save it holds the most recent ones of the history, in
\* the order they were appended, and the records the file had before are
\* still there in the same order, but for the oldest ones, which may be
\* gone.
C28_FileCapped ==
    history_file.valid => Len(history_file.data) <= RECOVERY_LOG_MAX_ENTRIES

C28_SaveStep ==
    (last'.op = "auto_recover" /\ last'.saved) =>
        LET n == Len(recovery_history')
            drop == IF n > RECOVERY_LOG_MAX_ENTRIES
                    THEN n - RECOVERY_LOG_MAX_ENTRIES ELSE 0
            new == history_file'.data
            old == history_file.data
        IN  /\ history_file'.valid
            /\ Len(new) = n - drop
            /\ \A i \in 1..Len(new) : new[i] = recovery_history'[i + drop]
            /\ history_file.valid =>
                  \E j \in 0..Len(old) :
                      /\ Len(old) - j <= Len(new)
                      /\ \A i \in 1..(Len(old) - j) : new[i] = old[j + i]

C28_RecentHistoryKept == [](C28_FileCapped) /\ [][C28_SaveStep]_vars

\* a save dropped the oldest record: the history has one more record than
\* the file can hold
C28_Witness ==
    /\ last.op = "auto_recover" /\ last.saved
    /\ Len(recovery_history) = RECOVERY_LOG_MAX_ENTRIES + 1
    /\ history_file.valid
    /\ Len(history_file.data) = RECOVERY_LOG_MAX_ENTRIES
    /\ history_file.data[1] = recovery_history[2]
    /\ history_file.data[1] # recovery_history[1]

\* C24: a failed health check or a failed recovery of one session does not
\* stop the monitoring loop: after a failed check the thread recovers that
\* session with the rest of the sweep still to do, after a failed recovery
\* the thread is in its sweep with every later session of the registry
\* still to be handled, and a thread ends only once the stop is signalled
C24_WorkerStep(w) ==
    /\ (last'.op = "monitor_check" /\ last'.worker = w /\ ~last'.healthy) =>
          /\ workers'[w].pc = "recover"
          /\ workers'[w].todo = workers[w].todo
          /\ Head(workers'[w].todo) = last'.sid
    /\ (workers[w].pc = "recover" /\ workers'[w] # workers[w]
          /\ ~last'.ret_ok) =>
          /\ last'.op = "auto_recover"
          /\ workers'[w].pc = "sweep"
          /\ {workers'[w].todo[i] : i \in 1..Len(workers'[w].todo)} =
                {x \in DOMAIN sessions_cache : x > last'.sid}
    /\ (workers[w].pc = "sweep" /\ workers[w].todo = <<>>
          /\ workers'[w] # workers[w]) =>
          workers'[w].pc = "loop"
    /\ (workers[w] # NoWorker /\ workers'[w] = NoWorker) =>
          workers[w].pc = "loop" /\ stop_event

C24_SweepGoesOn == [][\A w \in Workers : C24_WorkerStep(w)]_vars

\* a recovery has just failed and later sessions are left in the sweep
C24_Witness ==
    /\ last.op = "auto_recover" /\ ~last.ret_ok
    /\ \E w \in Workers :
          /\ workers[w].pc = "sweep"
          /\ workers[w].todo # <<>>
          /\ Head(workers[w].todo) > last.sid

\* C29: within one sweep the monitor handles the sessions in strictly
\* ascending order of their ids: the sessions left in a sweep are ascending
\* and the one handled is the first of them; an entry that is not active is
\* passed over without a check, and a session is recovered only after its
\* health check failed in this sweep
C29_Ascending ==
    \A w \in Workers :
        \A i \in 1..Len(workers[w].todo), j \in 1..Len(workers[w].todo) :
            i < j => workers[w].todo[i] < workers[w].todo[j]

C29_WorkerStep(w) ==
    /\ (workers[w].pc \in {"sweep", "recover"}
          /\ workers'[w].pc \in {"sweep", "recover"}
          /\ workers'[w] # workers[w]) =>
          /\ last'.sid = Head(workers[w].todo)
          /\ workers'[w].todo \in {workers[w].todo, Tail(workers[w].todo)}
    /\ (last'.op = "monitor_check" /\ last'.worker = w) =>
          sessions_cache[last'.sid].status = "active"
    /\ (last'.op = "monitor_skip" /\ last'.worker = w) =>
          /\ sessions_cache[last'.sid].status # "active"
          /\ UNCHANGED <<tmuxvars, recvars>>
    /\ (workers'[w].pc = "recover" /\ workers'[w] # workers[w]) =>
          /\ last'.op = "monitor_check" /\ last'.worker = w
          /\ ~last'.healthy
          /\ workers[w].pc = "sweep"
          /\ workers'[w].todo = workers[w].todo
    /\ (workers[w].pc # "recover" /\ workers'[w] # workers[w]) =>
          last'.op # "auto_recover"

C29_SweepOrder ==
    [](C29_Ascending) /\ [][\A w \in Workers : C29_WorkerStep(w)]_vars

\* a sweep has recovered a session and then passed over the last session,
\* which is not active
C29_Witness ==
    /\ last.op = "monitor_skip"
    /\ last.sid = Max(DOMAIN sessions_cache)
    /\ last.sid > 1
    /\ workers[last.worker] = Worker("sweep", <<>>)
    /\ Len(recovery_history) > 0
    /\ recovery_history[Len(recovery_history)].session_id < last.sid

\* C26: start_monitoring called while the monitoring runs starts no thread
\* and leaves the stop signal, the running thread and the flag as they are
C26_StartStep ==
    (last'.op = "start_monitoring" /\ monitoring) =>
        /\ workers' = workers
        /\ monitor_thread' = monitor_thread
        /\ stop_event' = stop_event
        /\ monitoring'

C26_StartIdempotent == [][C26_StartStep]_vars

\* a start that found the monitoring running, with its thread in a sweep
C26_Witness ==
    /\ last.op = "start_monitoring" /\ last.error = "already_running"
    /\ monitoring /\ ~stop_event
    /\ workers[monitor_thread].pc = "sweep"
    /\ \A w \in Workers \ {monitor_thread} : workers[w] = NoWorker

\* C25: after stop_monitoring has returned and until the next
\* start_monitoring, the monitoring thread makes no health check and no
\* recovery (kill, create, history write)
C25_WorkStep ==
    last'.op \in {"monitor_check", "auto_recover"} =>
        monitoring \/ stop_pc = "joining"

C25_NoWorkAfterStop == [][C25_WorkStep]_vars

\* C27: a tmux command of a health check or of a recovery that never
\* returns is cut off, so that the monitoring thread goes on with its sweep
C27_HangCutOff ==
    \A w \in Workers :
        (workers[w].pc = "hung") ~>
            (workers[w].pc \in {"sweep", "recover", "loop"})

\* C30: every sweep of the monitor is over the sessions that are in the
\* session registry (sessions.json) when the sweep starts, and a session
\* that is health-checked or recovered is in the registry
C30_SweepStep ==
    /\ last'.op = "sweep" =>
          LET todo == workers'[last'.worker].todo
          IN  {todo[i] : i \in 1..Len(todo)} = FileSessionNums(sessions_file)
    /\ last'.op \in {"monitor_check", "auto_recover"} =>
          last'.sid \in FileSessionNums(sessions_file)

C30_SweepsRegistry == [][C30_SweepStep]_vars

\* C31: after every add or remove that returns successfully, sessions.json
\* holds exactly one pair id -> channel for each entry of the registry,
\* whatever the status of the entry
C31_SavedStep ==
    (last'.op \in {"add", "remove"} /\ last'.outcome = "return"
        /\ last'.ret_ok) =>
        /\ sessions_file'.valid
        /\ DOMAIN sessions_file'.data =
              {IntToStr(id) : id \in DOMAIN sessions_cache'}
        /\ \A id \in DOMAIN sessions_cache' :
              sessions_file'.data[IntToStr(id)] = sessions_cache'[id].channel_id

C31_FullMappingSaved == [][C31_SavedStep]_vars

\* C32: recover_session for a session that has no entry in the cache
\* returns False at once: create_claude_session is not called, no retry is
\* waited for and the cache gets no entry for the session
C32_UnknownStep ==
    (last'.op = "recover" /\ last'.sid \notin DOMAIN tm_cache) =>
        /\ ~last'.ret_ok
        /\ last'.creates = 0
        /\ last'.sleeps = 0
        /\ last'.sid \notin DOMAIN tm_cache'
        /\ tm_cache' = tm_cache

C32_UnknownSessionFails == [][C32_UnknownStep]_vars

\* a recovery of a session without cache entry has returned False
C32_Witness ==
    /\ last.op = "recover"
    /\ last.error = "not_in_cache"
    /\ ~last.ret_ok
    /\ last.sid \notin DOMAIN tm_cache
    /\ last.max_retries = DefaultMaxRetries

\* C33: list_claude_sessions returns the live sessions sorted by ascending
\* id and rebuilds the cache from them: after it returns, the sessions
\* whose cached status is active are exactly the sessions of the list
C33_ListStep ==
    (last'.op = "list" /\ last'.outcome = "return") =>
        LET l == last'.ret_list
        IN  /\ {l[i] : i \in 1..Len(l)} = DOMAIN tmux
            /\ \A i \in 1..Len(l), j \in 1..Len(l) : i < j => l[i] < l[j]
            /\ {k \in DOMAIN tm_cache' : tm_cache'[k].status = "active"} =
                  {l[i] : i \in 1..Len(l)}

C33_ListRebuildsCache == [][C33_ListStep]_vars

\* C34 as claimed: check_session_health returns what
\* is_claude_session_exists returns on the same tmux state and leaves the
\* cache as is_claude_session_exists leaves it (the entry stopped when the
\* session is absent, unchanged when it is present)
C34_HealthAsExistsStep ==
    last'.op = "health" =>
        /\ last'.ret_ok = HasSession(last'.sid)
        /\ tm_cache' = CacheAfterExists(tm_cache, last'.sid)

C34_HealthEquivalentToExists == [][C34_HealthAsExistsStep]_vars

\* C34 as amended: check_session_health returns what
\* is_claude_session_exists returns on the same tmux state; it leaves the
\* cache as is_claude_session_exists leaves it except for the status of
\* the entry of the session, which it sets to active when the session is
\* present and to error when it is absent
C34_HealthStep ==
    last'.op = "health" =>
        LET id == last'.sid
            after_exists == CacheAfterExists(tm_cache, id)
        IN  /\ last'.ret_ok = HasSession(id)
            /\ DOMAIN tm_cache' = DOMAIN tm_cache
            /\ \A k \in DOMAIN tm_cache' :
                  tm_cache'[k] =
                     IF k = id
                     THEN [after_exists[k] EXCEPT
                             !.status = IF HasSession(id) THEN "active"
                                        ELSE "error"]
                     ELSE after_exists[k]
            /\ UNCHANGED <<tmux, tmux_installed>>

C34_HealthSameResult == [][C34_HealthStep]_vars

\* a health check found the session absent and left its entry with the
\* status error, where is_claude_session_exists leaves stopped
C34_Witness ==
    /\ last.op = "health" /\ ~last.ret_ok
    /\ tmux_installed
    /\ last.sid \in DOMAIN tm_cache
    /\ tm_cache[last.sid].status = "error"
    /\ CacheAfterExists(tm_cache, last.sid)[last.sid].status = "stopped"

\* the relation of channel_map is the relation of sessions_cache:
\* channel_map[c] = id exactly when sessions_cache holds an entry with
\* session_id id and channel_id c
SameRelation ==
    /\ \A c \in DOMAIN channel_map :
          /\ channel_map[c] \in DOMAIN sessions_cache
          /\ sessions_cache[channel_map[c]].channel_id = c
    /\ \A id \in DOMAIN sessions_cache :
          /\ sessions_cache[id].session_id = id
          /\ sessions_cache[id].channel_id \in DOMAIN channel_map
          /\ channel_map[sessions_cache[id].channel_id] = id

\* C35: in every state of one SessionManager under add, remove and
\* update_health in which no call is under way, channel_map and
\* sessions_cache describe the same relation
C35_SameRelation ==
    (\A t \in Callers : pc[t] \in {"idle", "done"}) => SameRelation

\* C36: add_session is rejected as a duplicate exactly when
\* get_session_by_channel returns a session for the channel: a channel
\* for which the lookup returns None can be added
C36_AddStep ==
    last'.op = "add" =>
        ((last'.error = "already_mapped") <=>
            (GetSessionByChannel(sessions_cache, channel_map, last'.cid) # None))

C36_DuplicateIffLookup == [][C36_AddStep]_vars

\* C37: in every state of AutoRecoverySystem the recovery counter of each
\* session is between 0 and MAX_RETRY_ATTEMPTS, every history record has
\* an attempt_number between 1 and MAX_RETRY_ATTEMPTS, and the counter of
\* a session is 0 if its latest history record is a success and the
\* attempt_number of that record if it is a failure
C37_CounterMatchesHistory ==
    /\ \A id \in DOMAIN recovery_counts :
          recovery_counts[id] \in 0..MAX_RETRY_ATTEMPTS
    /\ \A i \in 1..Len(recovery_history) :
          recovery_history[i].attempt_number \in 1..MAX_RETRY_ATTEMPTS
    /\ \A i \in 1..Len(recovery_history) :
          LET r == recovery_history[i]
          IN  (\A j \in (i + 1)..Len(recovery_history) :
                  recovery_history[j].session_id # r.session_id) =>
                 Get(recovery_counts, r.session_id, 0) =
                    IF r.success THEN 0 ELSE r.attempt_number

\* C38: over any sequence of start_monitoring and stop_monitoring calls at
\* most one monitoring thread is running at any time
C38_OneWorker ==
    Cardinality({w \in Workers : workers[w] # NoWorker}) <= 1

\* C39: after stop_monitoring is called, and with no start_monitoring
\* after it, the monitoring thread leaves its loop and ends, every tmux
\* call returning (the model halts a thread at a recovery that would make
\* the history longer than MaxHistory)
C39_WorkerEnds ==
    \A w \in Workers :
        (stop_event /\ workers[w] # NoWorker) ~>
            \/ workers[w] = NoWorker
            \/ workers[w].pc = "recover" /\ Len(recovery_history) = MaxHistory

\* the thread has ended after a stop that came while it was recovering a
\* session
C39_Witness ==
    /\ last.op = "monitor_exit"
    /\ stop_event /\ ~monitoring
    /\ \A w \in Workers : workers[w] = NoWorker
    /\ Len(recovery_history) > 0
    /\ Len(recovery_history) < MaxHistory

\* C40: recover_session returns True only if, during the call, the
\* previous tmux session of the id was absent or was killed and a new
\* session was launched by create_claude_session
C40_RecoverStep ==
    (last'.op = "recover" /\ last'.ret_ok) => last'.launches >= 1

C40_SuccessMeansRelaunch == [][C40_RecoverStep]_vars
====
